---- MODULE Spec2Model ----
(***************************************************************************)
(* A model of portfolio_tester: the cashflow builder (engine/cashflows.py),*)
(* the month-by-month simulator (engine/simulator.py), the bootstrap       *)
(* sampler (sampling/bootstrap.py) and the IRR series, cagr,               *)
(* twrr_annualized and max_drawdown of analytics/metrics.py.               *)
(*                                                                         *)
(* Numbers.  The program computes in IEEE doubles; the model computes in   *)
(* exact rationals <<n, d>> (d > 0, lowest terms), so float rounding is    *)
(* not modelled.  Python's 0-based index i is index i+1 of a TLA+ sequence.*)
(* A call that raises is the record [raised |-> <exception>, value |-> <<>>]*)
(*                                                                         *)
(* Specifications.  SpecCF: one call of build_cashflow_vector.  Spec: a    *)
(* simulator, one run_with_cashflows call month by month, then mwrr_irr.   *)
(* SpecSummary: a simulator, one run_with_cashflows call, then the three   *)
(* summary metrics.  SpecSample: a sampler and one sample call.            *)
(* SpecRepeat: a sampler and up to MaxCalls sample calls on it.            *)
(***************************************************************************)
EXTENDS Integers, Sequences, FiniteSets, TLC

VARIABLES
    pc,             \* position of the running call
    bcv_args,       \* build_cashflow_vector: [goals, horizon_m, infl_path]
    bcv_ret,        \* build_cashflow_vector: what the call returned or raised
    sim,            \* MonteCarloSimulator fields: [w, starting_balance, reb_m]
    run_args,       \* run_with_cashflows: [R_paths, infl_paths, goals] of one path
    t,              \* run_with_cashflows: the loop counter
    alloc,          \* run_with_cashflows: per-asset dollars of the path
    balances,       \* run_with_cashflows: balances[s], length T+1
    twrr_monthly,   \* run_with_cashflows: twrr_monthly[s], length T
    failure_month,  \* run_with_cashflows: failure_month[s]
    port,           \* run_with_cashflows: port[s] of every month processed
    cf_paths,       \* run_with_cashflows: cf_paths[s], length T
    real_balances,  \* run_with_cashflows: real_balances[s]
    series,         \* mwrr_irr: the series handed to the IRR solver
    metrics,        \* cagr, twrr_annualized, max_drawdown of the path
    sampler,        \* ReturnSampler fields: [rets, infl, years, unique_years]
    first_call,     \* sample: [args, ret, draws] of the sampler's first call
    last_call,      \* sample: [args, ret, draws] of its latest call
    n_calls         \* sample: calls made on the sampler so far

vars == <<pc, bcv_args, bcv_ret, sim, run_args, t, alloc, balances,
          twrr_monthly, failure_month, port, cf_paths, real_balances, series,
          metrics, sampler, first_call, last_call, n_calls>>

bcvVars == <<bcv_args, bcv_ret>>
simVars == <<sim, run_args, t, alloc, balances, twrr_monthly, failure_month,
             port, cf_paths, real_balances, series, metrics>>
samplerVars == <<sampler, first_call, last_call, n_calls>>

----------------------------------------------------------------------------
(* Bounds of the model *)

MaxT == 3
MaxRepeats == 3
MaxStart == 2
MaxReb == 3
MaxSims == 2
MaxBlockYears == 3
MaxSeed == 3
MaxEntropy == 1
MaxCalls == 3

----------------------------------------------------------------------------
(* Exact rational arithmetic standing for float arithmetic *)

Abs(x) == IF x < 0 THEN -x ELSE x

RECURSIVE Gcd(_, _)
Gcd(a, b) == IF b = 0 THEN a ELSE Gcd(b, a % b)

Rat(n, d) ==
    LET s == IF d < 0 THEN -1 ELSE 1
        g == Gcd(Abs(n), Abs(d))
    IN  <<(s * n) \div g, (s * d) \div g>>

Num(n) == <<n, 1>>
Zero == <<0, 1>>
One == <<1, 1>>

RAdd(a, b) == Rat(a[1] * b[2] + b[1] * a[2], a[2] * b[2])
RSub(a, b) == Rat(a[1] * b[2] - b[1] * a[2], a[2] * b[2])
RMul(a, b) == Rat(a[1] * b[1], a[2] * b[2])
RDiv(a, b) == Rat(a[1] * b[2], a[2] * b[1])
RLt(a, b) == a[1] * b[2] < b[1] * a[2]

RECURSIVE RSum(_)
RSum(xs) == IF xs = <<>> THEN Zero ELSE RAdd(xs[1], RSum(Tail(xs)))

Ok(v) == [raised |-> "no", value |-> v]
Raise(e) == [raised |-> e, value |-> <<>>]

----------------------------------------------------------------------------
(* engine/cashflows.py *)

step_months_from_frequency(freq) == 12 \div freq

\* np.cumprod(1.0 + infl_path)
RECURSIVE cumprod_to(_, _)
cumprod_to(path, i) ==
    IF i = 0 THEN One ELSE RMul(cumprod_to(path, i - 1), RAdd(One, path[i]))

cumprod_one_plus(path) == [i \in 1..Len(path) |-> cumprod_to(path, i)]

\* Fault injection: the guard due > 0 is missing, so a payment due at month 0 is
\* indexed by infl_cum[-1], the last entry.
payment_amount_unguarded(g, due, infl_cum) ==
    IF g.real
        THEN RMul(Num(g.amount),
                  infl_cum[IF due > 0 THEN due ELSE Len(infl_cum)])
        ELSE Num(g.amount)

\* lines 22-24: amt = float(g.amount); indexed by infl_cum[due-1] when real.
\* Every caller passes an inflation path, so infl_cum is not None.
payment_amount(g, due, infl_cum) ==
    IF g.real /\ due > 0 THEN RMul(Num(g.amount), infl_cum[due])
    ELSE Num(g.amount)

\* Fault injection: cf[due] = amt, the payment replaces what the month already holds.
add_payment_overwrite(cf, due, amt) == [cf EXCEPT ![due + 1] = amt]

\* line 25: cf[due] += amt
add_payment(cf, due, amt) == [cf EXCEPT ![due + 1] = RAdd(@, amt)]

\* lines 20-26: the loop over one goal's repeats
RECURSIVE goal_payments(_, _, _, _, _, _, _)
goal_payments(cf, g, step, due, left, horizon_m, infl_cum) ==
    IF left <= 0 THEN cf
    ELSE goal_payments(
            IF due < horizon_m
                THEN add_payment(cf, due, payment_amount(g, due, infl_cum))
                ELSE cf,
            g, step, due + step, left - 1, horizon_m, infl_cum)

\* lines 17-26: the loop over the goals; 12 // 0 raises ZeroDivisionError
RECURSIVE goals_loop(_, _, _, _, _)
goals_loop(cf, goals, i, horizon_m, infl_cum) ==
    IF i > Len(goals) THEN Ok(cf)
    ELSE IF goals[i].frequency = 0 THEN Raise("ZeroDivisionError")
    ELSE goals_loop(
            goal_payments(cf, goals[i],
                          step_months_from_frequency(goals[i].frequency),
                          goals[i].start_month, goals[i].repeats,
                          horizon_m, infl_cum),
            goals, i + 1, horizon_m, infl_cum)

\* np.zeros(horizon_m) raises ValueError for a negative length
build_cashflow_vector(goals, horizon_m, infl_path) ==
    IF horizon_m < 0 THEN Raise("ValueError")
    ELSE goals_loop([m \in 1..horizon_m |-> Zero], goals, 1, horizon_m,
                    cumprod_one_plus(infl_path))

----------------------------------------------------------------------------
(* Inputs of build_cashflow_vector *)

Frequencies == {0, 1, 2, 4, 12, 24}
ValidFrequencies == {1, 4, 12}
InflRates == {Zero, One}

Goal(amount, start_month, frequency, repeats, real) ==
    [amount |-> amount, start_month |-> start_month, frequency |-> frequency,
     repeats |-> repeats, real |-> real]

WideGoals ==
    [amount : {100, -40}, start_month : 0..MaxStart, frequency : Frequencies,
     repeats : 0..MaxRepeats, real : BOOLEAN]

NarrowGoals ==
    [amount : {100, -40}, start_month : {0, 1}, frequency : {4, 12},
     repeats : {2}, real : BOOLEAN]

GoalLists ==
    {<<>>} \cup {<<g>> : g \in WideGoals}
           \cup {<<g1, g2>> : g1 \in NarrowGoals, g2 \in NarrowGoals}

Horizons == (-1..MaxT) \cup {5, 12 + MaxT}

\* Inflation paths of length h: rate a for the first j months, rate b after
InflPaths(h) ==
    {[i \in 1..h |-> IF i <= j THEN a ELSE b] :
        j \in 0..h, a \in InflRates, b \in InflRates}

NoCall == [raised |-> "pending", value |-> <<>>]
IdleSim == [w |-> <<>>, starting_balance |-> Zero, reb_m |-> 1]
IdleRun == [R_paths |-> <<>>, infl_paths |-> <<>>, goals |-> <<>>]

SimIdle ==
    /\ sim = IdleSim
    /\ run_args = IdleRun
    /\ t = 0
    /\ alloc = <<>>
    /\ balances = <<>>
    /\ twrr_monthly = <<>>
    /\ failure_month = -1
    /\ port = <<>>
    /\ cf_paths = <<>>
    /\ real_balances = <<>>
    /\ series = <<>>
    /\ metrics = <<>>

NoSampler == [rets |-> <<>>, infl |-> <<>>, years |-> <<>>,
              unique_years |-> <<>>]
NoSample == [args |-> <<>>, ret |-> NoCall, draws |-> <<>>]

SamplerIdle ==
    /\ sampler = NoSampler
    /\ first_call = NoSample
    /\ last_call = NoSample
    /\ n_calls = 0

BcvIdle ==
    /\ bcv_args = [goals |-> <<>>, horizon_m |-> 0, infl_path |-> <<>>]
    /\ bcv_ret = NoCall

InitCF ==
    /\ pc = "bcv_call"
    /\ \E goals \in GoalLists, h \in Horizons :
        \E infl \in InflPaths(h) :
            bcv_args = [goals |-> goals, horizon_m |-> h, infl_path |-> infl]
    /\ bcv_ret = NoCall
    /\ SimIdle
    /\ SamplerIdle

BuildCashflowVector ==
    /\ pc = "bcv_call"
    /\ bcv_ret' = build_cashflow_vector(bcv_args.goals, bcv_args.horizon_m,
                                        bcv_args.infl_path)
    /\ pc' = "bcv_done"
    /\ UNCHANGED <<bcv_args, simVars, samplerVars>>

NextCF == BuildCashflowVector

SpecCF == InitCF /\ [][NextCF]_vars

----------------------------------------------------------------------------
(* Claims about build_cashflow_vector, checked under SpecCF *)

BcvReturned == pc = "bcv_done" /\ bcv_ret.raised = "no"

AllValidFrequencies(goals) ==
    \A i \in 1..Len(goals) : goals[i].frequency \in ValidFrequencies

\* product(1 + inflation_path[i] for i in [0, d)), months counted from 0
RECURSIVE InflationFactor(_, _)
InflationFactor(path, d) ==
    IF d = 0 THEN One
    ELSE RMul(RAdd(One, path[d]), InflationFactor(path, d - 1))

IndexedAmount(g, d, path) ==
    IF g.real THEN RMul(Num(g.amount), InflationFactor(path, d))
    ELSE Num(g.amount)

\* the payments k of goal g that are due at month m
DueAt(g, m) ==
    {k \in 0..(g.repeats - 1) : g.start_month + k * (12 \div g.frequency) = m}

ExpectedEntry(goals, m, path) ==
    RSum([i \in 1..Len(goals) |->
            RMul(Num(Cardinality(DueAt(goals[i], m))),
                 IndexedAmount(goals[i], m, path))])

\* C4: for goals of frequency 1, 4 or 12 and a horizon >= 0,
\* build_cashflow_vector returns a vector of length horizon_m whose entry m is
\* the sum over all goals and all k in [0, repeats) of the (indexed) amounts of
\* the payments due at month m; payments due at or after the horizon are
\* dropped and every other entry is 0.  Amount 100, start 0, frequency 12,
\* repeats 3, horizon 5 gives [100, 100, 100, 0, 0].
C4_CashflowVector ==
    (pc = "bcv_done" /\ bcv_args.horizon_m >= 0
        /\ AllValidFrequencies(bcv_args.goals))
    => /\ bcv_ret.raised = "no"
       /\ Len(bcv_ret.value) = bcv_args.horizon_m
       /\ \A m \in 0..(bcv_args.horizon_m - 1) :
            bcv_ret.value[m + 1] =
                ExpectedEntry(bcv_args.goals, m, bcv_args.infl_path)
       /\ (bcv_args.goals = <<Goal(100, 0, 12, 3, FALSE)>>
            /\ bcv_args.horizon_m = 5)
          => bcv_ret.value = <<Num(100), Num(100), Num(100), Zero, Zero>>

\* Two goals pay in the same month and a payment falls beyond the horizon.
C4_Witness ==
    /\ BcvReturned
    /\ AllValidFrequencies(bcv_args.goals)
    /\ Len(bcv_args.goals) = 2
    /\ \E m \in 0..(bcv_args.horizon_m - 1) :
        /\ DueAt(bcv_args.goals[1], m) # {}
        /\ DueAt(bcv_args.goals[2], m) # {}
        /\ bcv_ret.value[m + 1] # Zero
    /\ \E i \in 1..2 : DueAt(bcv_args.goals[i], bcv_args.horizon_m) # {}

\* C5: a payment of a real goal due at month d is the nominal amount times the
\* product of (1 + inflation_path[i]) for i in [0, d): the inflation of months
\* 0..d-1, not of month d; a payment due at month 0 is not inflated; and the
\* payments of goals that are not real do not depend on the inflation path.
C5_RealIndexing ==
    BcvReturned =>
       /\ (Len(bcv_args.goals) = 1 /\ bcv_args.goals[1].real
            /\ AllValidFrequencies(bcv_args.goals))
          => LET g == bcv_args.goals[1] IN
             \A k \in 0..(g.repeats - 1) :
                LET d == g.start_month + k * (12 \div g.frequency) IN
                d < bcv_args.horizon_m =>
                    /\ bcv_ret.value[d + 1] =
                         RMul(Num(g.amount),
                              InflationFactor(bcv_args.infl_path, d))
                    /\ d = 0 => bcv_ret.value[d + 1] = Num(g.amount)
       /\ (\A i \in 1..Len(bcv_args.goals) : ~bcv_args.goals[i].real)
          => \A other \in InflPaths(bcv_args.horizon_m) :
                build_cashflow_vector(bcv_args.goals, bcv_args.horizon_m, other)
                    = bcv_ret

\* A real payment due after month 0 whose amount inflation has changed, in a
\* path whose due month itself has inflation.
C5_Witness ==
    /\ BcvReturned
    /\ Len(bcv_args.goals) = 1
    /\ bcv_args.goals[1].real
    /\ bcv_args.goals[1].frequency = 12
    /\ \E d \in 1..(bcv_args.horizon_m - 1) :
        /\ DueAt(bcv_args.goals[1], d) # {}
        /\ bcv_args.infl_path[d + 1] # Zero
        /\ bcv_ret.value[d + 1] # Num(bcv_args.goals[1].amount)
        /\ bcv_ret.value[d + 1] # Zero

\* C6: a goal whose frequency is not 1, 4 or 12, or a horizon that is not
\* positive, is raised as an error: build_cashflow_vector returns no vector.
C6_InvalidConfigRaises ==
    (pc = "bcv_done"
        /\ (bcv_args.horizon_m <= 0 \/ ~AllValidFrequencies(bcv_args.goals)))
    => bcv_ret.raised # "no"

----------------------------------------------------------------------------
(* engine/simulator.py: MonteCarloSimulator, one path s of the batch.      *)
(* Every array operation of run_with_cashflows is elementwise along the    *)
(* path axis, so the path modelled stands for any row of the arrays.       *)

\* x / np.maximum(y, 1e-12).  A rational of the model is below 1e-12 exactly
\* when it is not positive; x / 1e-12 is x * 10^12.
div_floored(x, y) ==
    IF y[1] > 0 THEN RDiv(x, y)
    ELSE RMul(RMul(x, Num(1000000)), Num(1000000))

\* line 32: alloc *= (1.0 + R_paths[:, t, :])
apply_returns(a, r) == [i \in 1..Len(a) |-> RMul(a[i], RAdd(One, r[i]))]

\* Fault injection: the month's return is taken after the cashflow.
monthly_twrr_after_cashflow(p, port_after_cf, before) ==
    RSub(div_floored(port_after_cf, before), One)

\* line 35: twrr_monthly[:, t] = (port / np.maximum(balances[:, t], 1e-12)) - 1.0
monthly_twrr(p, port_after_cf, before) == RSub(div_floored(p, before), One)

\* Fault injection: marks a failure at every negative month, overwriting the first.
failed_now_every_time(port_after_cf, fm) == RLt(port_after_cf, Zero)

\* line 39: failed_now = (port_after_cf < 0) & (failure_month == -1)
failed_now(port_after_cf, fm) == RLt(port_after_cf, Zero) /\ fm = -1

\* line 41: np.where(port_after_cf < 0, 0.0, port_after_cf)
clamp(port_after_cf) == IF RLt(port_after_cf, Zero) THEN Zero ELSE port_after_cf

\* Fault injection: rebalances when t, not t+1, is a multiple of the interval.
is_rebalance_month_off_by_one(month, reb_m) == month % reb_m = 0

\* line 45: (t + 1) % self.reb_m == 0
is_rebalance_month(month, reb_m) == (month + 1) % reb_m = 0

\* lines 45-49: the allocation carried into the next month.  The drift branch
\* is alloc * (post / max(port, 1e-12)), computed here as (alloc * post) /
\* max(port, 1e-12): the same rational, and 0 * (post * 10^12) stays in range.
reallocate(grown, p, post, month, w, reb_m) ==
    IF is_rebalance_month(month, reb_m)
        THEN [i \in 1..Len(w) |-> RMul(post, w[i])]
        ELSE [i \in 1..Len(grown) |-> div_floored(RMul(grown[i], post), p)]

\* lines 52-55: balances[s] / np.maximum(infl_cum, 1e-12), infl_cum from 1.0
deflate(bal, infl_path) ==
    [i \in 1..Len(bal) |-> div_floored(bal[i], cumprod_to(infl_path, i - 1))]

\* analytics/metrics.py line 20
\* series = [-balances[s,0]] + cashflows[s].tolist() + [balances[s,-1]]
irr_series(cashflows, bal) ==
    <<RSub(Zero, bal[1])>> \o cashflows \o <<bal[Len(bal)]>>

\* lines 27-49 as a function of the cashflow vector: the arrays of the path
\* after its first k months, for the simulator and the return path of the
\* current run.  A second run of the same simulator on the same returns
\* differs from the current one in the cashflow vector only.
RECURSIVE run_after(_, _)
run_after(cf, k) ==
    IF k = 0
    THEN [alloc |-> [i \in 1..Len(sim.w) |->
                        RMul(sim.w[i], sim.starting_balance)],
          balances |-> <<sim.starting_balance>>,
          twrr_monthly |-> <<>>,
          port |-> <<>>]
    ELSE LET before == run_after(cf, k - 1)
             grown == apply_returns(before.alloc, run_args.R_paths[k])
             p == RSum(grown)
             port_after_cf == RAdd(p, cf[k])
             post == clamp(port_after_cf)
         IN  [alloc |-> reallocate(grown, p, post, k - 1, sim.w, sim.reb_m),
              balances |-> Append(before.balances, post),
              twrr_monthly |-> Append(before.twrr_monthly,
                    monthly_twrr(p, port_after_cf, before.balances[k])),
              port |-> Append(before.port, p)]

----------------------------------------------------------------------------
(* analytics/metrics.py: cagr, twrr_annualized, max_drawdown of one path.  *)
(* An annualised growth x ** (1 / years) with years = months / 12 is       *)
(* irrational in general, so it is kept as the pair of x and months: the   *)
(* real number x ** (12 / months), which for x >= 0 is 1 exactly when x    *)
(* is 1 and 0 exactly when x is 0.                                         *)

NaN == [nan |-> TRUE, growth |-> Zero, months |-> 0]

\* x ** (1 / years) - 1.0 with years = months / 12.0
annualized(x, months) == [nan |-> FALSE, growth |-> x, months |-> months]

\* lines 3-8: years = 0.0 makes 1 / years raise; start <= 0 gives nan
cagr(bal, months) ==
    IF months = 0 THEN Raise("ZeroDivisionError")
    ELSE Ok(IF bal[1][1] > 0
               THEN annualized(RDiv(bal[Len(bal)], bal[1]), months)
               ELSE NaN)

\* line 11: np.prod(1.0 + twrr_monthly, axis=1)
RECURSIVE growth_product(_)
growth_product(twrr) ==
    IF twrr = <<>> THEN One
    ELSE RMul(RAdd(One, Head(twrr)), growth_product(Tail(twrr)))

\* lines 10-13
twrr_annualized(twrr) ==
    IF Len(twrr) = 0 THEN Raise("ZeroDivisionError")
    ELSE Ok(annualized(growth_product(twrr), Len(twrr)))

\* line 41: np.maximum.accumulate(x), entry i
RECURSIVE peak_to(_, _)
peak_to(x, i) ==
    IF i = 1 THEN x[1]
    ELSE LET before == peak_to(x, i - 1)
         IN  IF RLt(before, x[i]) THEN x[i] ELSE before

\* Fault injection: the drawdown is x / peak, the subtraction of the peak is
\* missing.
drawdown_without_peak(x, i) == RDiv(x[i], peak_to(x, i))

\* line 42: dd = (x - peak) / peak, entry i (peak > 0)
drawdown(x, i) == RDiv(RSub(x[i], peak_to(x, i)), peak_to(x, i))

\* lines 37-44: dd.min(); a peak of 0 divides 0 by 0 and the minimum is nan
max_drawdown(x) ==
    IF x[1][1] <= 0 THEN [nan |-> TRUE, value |-> Zero]
    ELSE LET dd == [i \in 1..Len(x) |-> drawdown(x, i)]
             low == CHOOSE i \in 1..Len(x) :
                        \A k \in 1..Len(x) : ~RLt(dd[k], dd[i])
         IN  [nan |-> FALSE, value |-> dd[low]]

\* the three summary calls made on the output of one run
summary_metrics(bal, twrr, months) ==
    [cagr |-> cagr(bal, months),
     twrr_annualized |-> twrr_annualized(twrr),
     max_drawdown |-> max_drawdown(bal)]

----------------------------------------------------------------------------
(* Inputs of the simulator *)

Half == <<1, 2>>
Weights == {<<Half, Half>>, <<<<1, 4>>, <<3, 4>>>>}
StartBalances == {Num(8)}

\* monthly simple returns of the two assets: flat, drifting apart, wiped out
RetVecs == {<<Zero, Zero>>, <<One, <<-1, 2>>>>, <<Num(-1), Num(-1)>>}
RetPaths(n) == [1..n -> RetVecs]

SimGoalLists ==
    { <<>>,
      <<Goal(-3, 0, 12, 5, FALSE)>>,
      <<Goal(-3, 0, 12, 5, TRUE)>>,
      <<Goal(-20, 1, 12, 1, FALSE)>>,
      <<Goal(-20, 0, 12, 2, FALSE)>>,
      <<Goal(-20, 0, 12, 1, FALSE), Goal(5, 1, 12, 5, FALSE)>>,
      <<Goal(-20, 0, 12, 1, FALSE), Goal(5, 1, 12, 1, FALSE),
        Goal(-20, 2, 12, 1, FALSE)>>,
      <<Goal(5, 0, 4, 2, TRUE)>>,
      <<Goal(-3, 0, 0, 1, FALSE)>> }

T == Len(run_args.R_paths)

\* MonteCarloSimulator.__init__
SimConstructed(starts) ==
    /\ pc = "constructed"
    /\ sim \in [w : Weights, starting_balance : starts, reb_m : 1..MaxReb]
    /\ run_args = IdleRun
    /\ t = 0
    /\ alloc = <<>>
    /\ balances = <<>>
    /\ twrr_monthly = <<>>
    /\ failure_month = -1
    /\ port = <<>>
    /\ cf_paths = <<>>
    /\ real_balances = <<>>
    /\ series = <<>>
    /\ metrics = <<>>
    /\ BcvIdle
    /\ SamplerIdle

InitSim == SimConstructed(StartBalances)

\* run_with_cashflows, lines 17-28: the arrays and the prebuilt cashflows
BeginRun(n, goals, R, infl) ==
    /\ pc = "constructed"
    /\ LET cf == build_cashflow_vector(goals, n, infl) IN
        /\ cf.raised = "no"
        /\ run_args' = [R_paths |-> R, infl_paths |-> infl, goals |-> goals]
        /\ balances' = [i \in 1..(n + 1) |->
                            IF i = 1 THEN sim.starting_balance ELSE Zero]
        /\ failure_month' = -1
        /\ cf_paths' = cf.value
        /\ alloc' = [i \in 1..Len(sim.w) |->
                        RMul(sim.w[i], sim.starting_balance)]
        /\ twrr_monthly' = [i \in 1..n |-> One]
    /\ t' = 0
    /\ port' = <<>>
    /\ pc' = "loop"
    /\ UNCHANGED <<sim, real_balances, series, metrics, bcvVars, samplerVars>>

\* run_with_cashflows called on any return path, inflation path and goal list
RunWithCashflows ==
    /\ pc = "constructed"
    /\ \E n \in 0..MaxT, goals \in SimGoalLists :
        \E R \in RetPaths(n), infl \in InflPaths(n) :
            BeginRun(n, goals, R, infl)

\* run_with_cashflows when build_cashflow_vector raises: nothing is returned
RunRaises ==
    /\ pc = "constructed"
    /\ \E n \in 0..MaxT, goals \in SimGoalLists :
        \E R \in RetPaths(n), infl \in InflPaths(n) :
            /\ build_cashflow_vector(goals, n, infl).raised # "no"
            /\ run_args' = [R_paths |-> R, infl_paths |-> infl, goals |-> goals]
    /\ pc' = "raised"
    /\ UNCHANGED <<sim, t, alloc, balances, twrr_monthly, failure_month, port,
                   cf_paths, real_balances, series, metrics, bcvVars,
                   samplerVars>>

\* run_with_cashflows, lines 30-49: month t of the loop
MonthStep ==
    /\ pc = "loop"
    /\ t < T
    /\ LET grown == apply_returns(alloc, run_args.R_paths[t + 1])
           p == RSum(grown)
           port_after_cf == RAdd(p, cf_paths[t + 1])
           post == clamp(port_after_cf)
       IN
        /\ twrr_monthly' = [twrr_monthly EXCEPT
                ![t + 1] = monthly_twrr(p, port_after_cf, balances[t + 1])]
        /\ failure_month' =
                IF failed_now(port_after_cf, failure_month) THEN t
                ELSE failure_month
        /\ balances' = [balances EXCEPT ![t + 2] = post]
        /\ alloc' = reallocate(grown, p, post, t, sim.w, sim.reb_m)
        /\ port' = Append(port, p)
    /\ t' = t + 1
    /\ UNCHANGED <<pc, sim, run_args, cf_paths, real_balances, series,
                   metrics, bcvVars, samplerVars>>

\* run_with_cashflows, lines 51-63: real balances, and the result is returned
Finish ==
    /\ pc = "loop"
    /\ t = T
    /\ real_balances' = deflate(balances, run_args.infl_paths)
    /\ pc' = "done"
    /\ UNCHANGED <<sim, run_args, t, alloc, balances, twrr_monthly,
                   failure_month, port, cf_paths, series, metrics, bcvVars,
                   samplerVars>>

\* mwrr_irr(out["cashflows"], out["balances"]): the series of the path
MwrrIrr ==
    /\ pc = "done"
    /\ series' = irr_series(cf_paths, balances)
    /\ pc' = "irr"
    /\ UNCHANGED <<sim, run_args, t, alloc, balances, twrr_monthly,
                   failure_month, port, cf_paths, real_balances, metrics,
                   bcvVars, samplerVars>>

\* scripts/quickstart.py lines 42-44: cagr(out["balances"], horizon_months),
\* twrr_annualized(out["twrr_monthly"]) and max_drawdown(out["balances"])
Metrics ==
    /\ pc = "done"
    /\ metrics' = summary_metrics(balances, twrr_monthly, T)
    /\ pc' = "metrics"
    /\ UNCHANGED <<sim, run_args, t, alloc, balances, twrr_monthly,
                   failure_month, port, cf_paths, real_balances, series,
                   bcvVars, samplerVars>>

Next == RunWithCashflows \/ RunRaises \/ MonthStep \/ Finish \/ MwrrIrr

Spec == InitSim /\ [][Next]_vars

----------------------------------------------------------------------------
(* A run followed by its summary metrics, as scripts/quickstart.py does:   *)
(* two starting balances, constant inflation, goal lists that are valid.   *)

SummaryStartBalances == {Num(8), Num(4)}

SummaryGoalLists ==
    { <<>>,
      <<Goal(-3, 0, 12, 5, FALSE)>>,
      <<Goal(8, 0, 12, 1, FALSE)>>,
      <<Goal(5, 0, 4, 2, TRUE)>>,
      <<Goal(-20, 1, 12, 1, FALSE)>> }

ConstantInflPaths(h) == {[i \in 1..h |-> a] : a \in InflRates}

InitSummary == SimConstructed(SummaryStartBalances)

RunForSummary ==
    /\ pc = "constructed"
    /\ \E n \in 0..MaxT, goals \in SummaryGoalLists :
        \E R \in RetPaths(n), infl \in ConstantInflPaths(n) :
            BeginRun(n, goals, R, infl)

NextSummary == RunForSummary \/ MonthStep \/ Finish \/ Metrics

SpecSummary == InitSummary /\ [][NextSummary]_vars

----------------------------------------------------------------------------
(* Claims about run_with_cashflows and mwrr_irr, checked under Spec *)

Running == pc \in {"loop", "done", "irr", "metrics"}

\* the months processed so far at which port + cashflow is negative
NegativeMonths ==
    {j \in 0..(t - 1) : RLt(RAdd(port[j + 1], cf_paths[j + 1]), Zero)}

FirstOf(S) == CHOOSE j \in S : \A k \in S : j <= k

\* C1: failure_month is the first month t at which the pre-cashflow value P
\* plus the month's cashflow is negative, and -1 when there is none; later
\* months, negative again or not, never change it; and the balance recorded at
\* index t+1 is 0.
C1_FirstFailureMonth ==
    Running =>
        /\ failure_month =
            IF NegativeMonths = {} THEN -1 ELSE FirstOf(NegativeMonths)
        /\ failure_month # -1 => balances[failure_month + 2] = Zero

\* The path failed, and a later month was negative after its cashflow again.
C1_Witness ==
    /\ pc = "done"
    /\ failure_month # -1
    /\ \E j \in NegativeMonths : j > failure_month

\* C2: once a path has failed at month t, every balance recorded at an index
\* greater than t is 0, whatever the goals pay afterwards.
C2_FailedStaysAtZero ==
    (Running /\ failure_month # -1)
    => \A i \in (failure_month + 1)..t : balances[i + 1] = Zero

TargetAlloc(w, balance) == [i \in 1..Len(w) |-> RMul(w[i], balance)]

\* C3: processing month t with (t+1) a multiple of the rebalance interval
\* leaves the allocation at exactly weights x balances[t+1], failed path or
\* not; at every other month the allocation is not reset: it is the
\* allocation after the month's returns, scaled by post / P.
C3_Step ==
    (pc = "loop" /\ t' = t + 1) =>
        LET grown == [i \in 1..Len(alloc) |->
                        RMul(alloc[i], RAdd(One, run_args.R_paths[t + 1][i]))]
            p == RSum(grown)
        IN  IF (t + 1) % sim.reb_m = 0
                THEN alloc' = TargetAlloc(sim.w, balances'[t + 2])
                ELSE \A i \in 1..Len(alloc) :
                        alloc'[i] = IF p = Zero THEN Zero
                                    ELSE RDiv(RMul(grown[i], balances'[t + 2]), p)

\* C3, as a property of every step of run_with_cashflows
C3_RebalanceCadence == [][C3_Step]_vars

\* Month 2 rebalanced with interval 2, and after month 3 the allocation has
\* drifted from the target weights.
C3_Witness ==
    /\ pc = "loop"
    /\ sim.reb_m = 2
    /\ t = 3
    /\ balances[3] # Zero
    /\ alloc # TargetAlloc(sim.w, balances[4])

\* C10: the series of mwrr_irr is [-start_balance, cashflow_1, ...,
\* cashflow_T + end_balance]: T+1 entries, the end balance added to the last
\* month's cashflow.
C10_IrrSeries ==
    (pc = "irr" /\ T >= 1) =>
        /\ Len(series) = T + 1
        /\ series[1] = RSub(Zero, balances[1])
        /\ \A j \in 1..(T - 1) : series[j + 1] = cf_paths[j]
        /\ series[T + 1] = RAdd(cf_paths[T], balances[T + 1])

----------------------------------------------------------------------------
(* sampling/bootstrap.py: ReturnSampler *)

Min(a, b) == IF a < b THEN a ELSE b
Take(xs, n) == SubSeq(xs, 1, Min(n, Len(xs)))

RECURSIVE Flatten(_)
Flatten(xss) == IF xss = <<>> THEN <<>> ELSE xss[1] \o Flatten(Tail(xss))

\* np.unique: the sorted distinct values
RECURSIVE Sorted(_)
Sorted(S) ==
    IF S = {} THEN <<>>
    ELSE LET lo == CHOOSE x \in S : \A y \in S : x <= y
         IN  <<lo>> \o Sorted(S \ {lo})

\* __init__, lines 7-11; a month without an inflation figure is filled with 0
ReturnSampler(rets_m, infl_m, months) ==
    [rets |-> rets_m,
     infl |-> [i \in 1..Len(rets_m) |->
                IF i \in DOMAIN infl_m THEN infl_m[i] ELSE 0],
     years |-> [i \in 1..Len(months) |-> months[i].year],
     unique_years |-> Sorted({months[i].year : i \in 1..Len(months)})]

\* __init__, line 12: the 0-based rows of year y, in calendar order
year_to_idx(smp, y) ==
    SelectSeq([i \in 1..Len(smp.years) |-> i - 1],
              LAMBDA i : smp.years[i + 1] = y)

\* Fault injection: the generator is seeded from fresh entropy whatever the seed is.
default_rng_unseeded(seed, entropy) ==
    (((100 + entropy) * 37 + 11) % 250) + 1

\* line 15: np.random.default_rng(cfg.seed).  The bit generator is a Lehmer
\* sequence modulo 251 standing for PCG64; seed None (<<>>) draws the initial
\* state from the operating system's entropy.
default_rng(seed, entropy) ==
    IF seed = <<>> THEN (((100 + entropy) * 37 + 11) % 250) + 1
    ELSE ((seed[1] * 37 + 11) % 250) + 1

\* the state of the generator at its k-th draw (k from 0)
RECURSIVE rng_state(_, _)
rng_state(st, k) ==
    IF k = 0 THEN (st * 6) % 251 ELSE (rng_state(st, k - 1) * 6) % 251

\* rng.integers(0, n, size=(rows, cols)), filled row by row
rng_integers(st, n, rows, cols) ==
    [r \in 1..rows |->
        [c \in 1..cols |-> rng_state(st, (r - 1) * cols + (c - 1)) % n]]

\* rng.choice(values, size=(rows, cols))
rng_choice(st, values, rows, cols) ==
    [r \in 1..rows |->
        [c \in 1..cols |->
            values[rng_integers(st, Len(values), rows, cols)[r][c] + 1]]]

\* lines 21-22, 35-36, 55-56: R = A[idx, :], CPI = I[idx]
gather(smp, idx) ==
    [R |-> [r \in 1..Len(idx) |->
                [c \in 1..Len(idx[r]) |-> smp.rets[idx[r][c] + 1]]],
     CPI |-> [r \in 1..Len(idx) |->
                [c \in 1..Len(idx[r]) |-> smp.infl[idx[r][c] + 1]]]]

\* lines 34-36, 54-56: np.array(monthly_idx) and the gather.  Rows of unequal
\* length make no index array (ValueError; an object array that the gather
\* rejects with IndexError in older numpy); rows that are all empty make a
\* float array, which the gather rejects.
index_and_gather(smp, monthly_idx) ==
    LET lens == {Len(monthly_idx[r]) : r \in 1..Len(monthly_idx)} IN
    IF Cardinality(lens) > 1 THEN Raise("ValueError")
    ELSE IF lens = {0} THEN Raise("IndexError")
    ELSE Ok(gather(smp, monthly_idx))

\* int(np.ceil(horizon_m / months))
blocks_for(horizon_m, months) == (horizon_m + months - 1) \div months

\* Fault injection: the cut seq[:horizon_m] is missing.
year_rows_untruncated(smp, chosen, horizon_m) ==
    Flatten([b \in 1..Len(chosen) |-> year_to_idx(smp, chosen[b])])

\* lines 30-33: the rows of the drawn years, cut at the horizon
year_rows(smp, chosen, horizon_m) ==
    Take(Flatten([b \in 1..Len(chosen) |-> year_to_idx(smp, chosen[b])]),
         horizon_m)

\* line 42: y_to_pos
y_to_pos(ys, y) == (CHOOSE i \in 1..Len(ys) : ys[i] = y) - 1

\* Fault injection: the block runs past the last year instead of wrapping.
block_position_no_wrap(pos, j, n) == pos + j

\* line 51: (pos + j) % len(ys)
block_position(pos, j, n) == (pos + j) % n

\* lines 48-52: the positions in ys of the years of the blocks of one path
block_positions(ys, path_starts, k) ==
    Flatten([b \in 1..Len(path_starts) |->
                [j \in 1..k |->
                    block_position(y_to_pos(ys, path_starts[b]), j - 1,
                                   Len(ys))]])

\* lines 47-53: the rows of the blocks of one path, cut at the horizon
block_rows(smp, positions, horizon_m) ==
    Take(Flatten([i \in 1..Len(positions) |->
                    year_to_idx(smp, smp.unique_years[positions[i] + 1])]),
         horizon_m)

\* sample, lines 14-60
sample(smp, horizon_m, n_sims, cfg, entropy) ==
    LET rng == default_rng(cfg.seed, entropy)
        ys == smp.unique_years
    IN
    IF cfg.mode = "single_month" THEN
        LET idx == rng_integers(rng, Len(smp.rets), n_sims, horizon_m)
        IN  [ret |-> Ok(gather(smp, idx)), draws |-> idx]
    ELSE IF cfg.mode = "single_year" THEN
        LET year_choices ==
                rng_choice(rng, ys, n_sims, blocks_for(horizon_m, 12))
            monthly_idx == [r \in 1..n_sims |->
                                year_rows(smp, year_choices[r], horizon_m)]
        IN  [ret |-> index_and_gather(smp, monthly_idx),
             draws |-> year_choices]
    ELSE IF cfg.mode = "block_years" THEN
        LET k == cfg.block_years
            starts == rng_choice(rng, ys, n_sims,
                                 blocks_for(horizon_m, 12 * k))
            positions == [r \in 1..n_sims |->
                            block_positions(ys, starts[r], k)]
        IN  IF \E r \in 1..n_sims : \E i \in 1..Len(positions[r]) :
                    positions[r][i] >= Len(ys)
                THEN [ret |-> Raise("IndexError"), draws |-> starts]
                ELSE [ret |-> index_and_gather(smp,
                                [r \in 1..n_sims |->
                                    block_rows(smp, positions[r], horizon_m)]),
                      draws |-> starts]
    ELSE [ret |-> Raise("ValueError"), draws |-> <<>>]

----------------------------------------------------------------------------
(* Inputs of the sampler *)

\* A gap-free monthly calendar of n months from month first_month of 2000;
\* row i holds returns <<i, 2i>> and inflation 100 + i, the last `missing`
\* months without an inflation figure.
History(first_month, n, missing) ==
    [months |-> [i \in 1..n |->
                    [year |-> 2000 + (first_month + i - 2) \div 12,
                     month |-> ((first_month + i - 2) % 12) + 1]],
     rets_m |-> [i \in 1..n |-> <<i, 2 * i>>],
     infl_m |-> [i \in 1..(n - missing) |-> 100 + i]]

Histories ==
    {History(f, n, m) : f \in {1, 7}, n \in {12, 24, 30}, m \in {0, 1}}

Modes == {"single_month", "single_year", "block_years", "bogus"}

SamplerConfig(mode, block_years, seed) ==
    [mode |-> mode, block_years |-> block_years, seed |-> seed]

Seeds == {<<>>} \cup {<<n>> : n \in 0..MaxSeed}

Configs ==
    {SamplerConfig(m, 5, sd) : m \in Modes \ {"block_years"}, sd \in Seeds}
    \cup {SamplerConfig("block_years", k, sd) :
            k \in 1..MaxBlockYears, sd \in Seeds}

SampleHorizons == {0, 1, 12, 13, 25}

CallRecord(h, n, cfg, out) ==
    [args |-> <<h, n, cfg>>, ret |-> out.ret, draws |-> out.draws]

\* ReturnSampler(rets_m, infl_m)
Constructed(hists) ==
    /\ pc = "sampler"
    /\ \E hist \in hists :
        sampler = ReturnSampler(hist.rets_m, hist.infl_m, hist.months)
    /\ first_call = NoSample
    /\ last_call = NoSample
    /\ n_calls = 0
    /\ BcvIdle
    /\ SimIdle

\* the first sampler.sample(horizon_m, n_sims, cfg) on the sampler
FirstSample(horizons, sims, cfgs) ==
    /\ pc = "sampler"
    /\ \E h \in horizons, n \in sims, cfg \in cfgs, e \in 0..MaxEntropy :
        LET call == CallRecord(h, n, cfg, sample(sampler, h, n, cfg, e)) IN
        /\ first_call' = call
        /\ last_call' = call
    /\ n_calls' = 1
    /\ pc' = "sampled"
    /\ UNCHANGED <<sampler, bcvVars, simVars>>

\* a later sampler.sample(horizon_m, n_sims, cfg) on the same sampler
LaterSample(horizons, sims, cfgs) ==
    /\ pc = "sampled"
    /\ n_calls < MaxCalls
    /\ \E h \in horizons, n \in sims, cfg \in cfgs, e \in 0..MaxEntropy :
        last_call' = CallRecord(h, n, cfg, sample(sampler, h, n, cfg, e))
    /\ n_calls' = n_calls + 1
    /\ UNCHANGED <<pc, sampler, first_call, bcvVars, simVars>>

InitSample == Constructed(Histories)

Sample == FirstSample(SampleHorizons, 1..MaxSims, Configs)

NextSample == Sample

SpecSample == InitSample /\ [][NextSample]_vars

\* Repeated calls on one sampler, over fewer inputs
RepeatHistories == {History(7, 24, 0), History(1, 12, 1)}

RepeatConfigs ==
    {SamplerConfig(m, 2, sd) :
        m \in {"single_month", "single_year", "block_years"},
        sd \in {<<>>, <<0>>, <<1>>}}

InitRepeat == Constructed(RepeatHistories)

SampleOnce == FirstSample({1, 13}, {2}, RepeatConfigs)

SampleAgain == LaterSample({1, 13}, {2}, RepeatConfigs)

NextRepeat == SampleOnce \/ SampleAgain

SpecRepeat == InitRepeat /\ [][NextRepeat]_vars

----------------------------------------------------------------------------
(* Claims about ReturnSampler.sample *)

Sampled == pc = "sampled"
Returned == Sampled /\ last_call.ret.raised = "no"
Horizon == last_call.args[1]
NSims == last_call.args[2]
Cfg == last_call.args[3]

\* C7: in every mode and for every historical series, partial first or last
\* year included, every path that sample returns has exactly horizon_months
\* months: R is (n_sims, horizon_months, n_assets), CPI (n_sims,
\* horizon_months).  Checked under SpecSample.
C7_ExactHorizon ==
    Returned =>
        /\ Len(last_call.ret.value.R) = NSims
        /\ Len(last_call.ret.value.CPI) = NSims
        /\ \A r \in 1..NSims :
            /\ Len(last_call.ret.value.R[r]) = Horizon
            /\ Len(last_call.ret.value.CPI[r]) = Horizon

\* the 1-based rows of year y in calendar order
MonthsOfYear(y) == Sorted({i \in 1..Len(sampler.years) : sampler.years[i] = y})

PositionOf(y) ==
    CHOOSE p \in 0..(Len(sampler.unique_years) - 1) :
        sampler.unique_years[p + 1] = y

\* the rows of the k years at positions (p + j) mod n, j = 0..k-1
CyclicBlock(p, k) ==
    Flatten([j \in 1..k |->
                MonthsOfYear(sampler.unique_years[
                    ((p + j - 1) % Len(sampler.unique_years)) + 1])])

ExpectedBlockRows(path_starts, k, h) ==
    Take(Flatten([b \in 1..Len(path_starts) |->
                    CyclicBlock(PositionOf(path_starts[b]), k)]), h)

\* C8: in block_years mode a block whose drawn start year is at position p of
\* the sorted distinct years is the months of the years at positions
\* (p + j) mod n, j = 0..block_years-1, in that order, each year's months in
\* calendar order; a block that starts at the most recent year, or is longer
\* than the number of years, cycles to the earliest year with no out-of-range
\* access.  Checked under SpecSample.
C8_BlockWraparound ==
    (Sampled /\ Cfg.mode = "block_years" /\ Horizon >= 1) =>
        /\ last_call.ret.raised \in {"no", "ValueError"}
        /\ last_call.ret.raised = "no" =>
            \A r \in 1..NSims :
                LET rows == ExpectedBlockRows(last_call.draws[r],
                                              Cfg.block_years, Horizon)
                IN  /\ last_call.ret.value.R[r] =
                        [c \in 1..Len(rows) |-> sampler.rets[rows[c]]]
                    /\ last_call.ret.value.CPI[r] =
                        [c \in 1..Len(rows) |-> sampler.infl[rows[c]]]

\* A block longer than the history starts at the most recent of several
\* years, and the returned path runs from its last month into the first
\* month of the earliest year.
C8_Witness ==
    /\ Returned
    /\ Cfg.mode = "block_years"
    /\ Len(sampler.unique_years) >= 2
    /\ Cfg.block_years > Len(sampler.unique_years)
    /\ \E r \in 1..NSims :
        /\ last_call.draws[r][1] =
                sampler.unique_years[Len(sampler.unique_years)]
        /\ \E c \in 1..(Horizon - 1) :
            /\ last_call.ret.value.R[r][c] = sampler.rets[Len(sampler.rets)]
            /\ last_call.ret.value.R[r][c + 1] = sampler.rets[1]

\* C9 as stated: two calls of sample with the same series, horizon, path
\* count, mode and seed, whatever seed the configuration allows and whatever
\* calls came between, return the same arrays.  Checked under SpecRepeat.
C9_SameArgsSameArrays ==
    (Sampled /\ last_call.args = first_call.args)
    => last_call.ret = first_call.ret

\* C9 for an integer seed: two calls of sample with the same series, horizon,
\* path count, mode and integer seed, whatever calls came between, return the
\* same arrays.  Checked under SpecRepeat.
C9_SeededDeterminism ==
    (Sampled /\ last_call.args = first_call.args /\ Cfg.seed # <<>>)
    => last_call.ret = first_call.ret

\* The third call on a sampler repeats the first call's arguments, with an
\* integer seed, and returns arrays.
C9_Witness ==
    /\ Returned
    /\ n_calls = 3
    /\ last_call.args = first_call.args
    /\ Cfg.seed # <<>>
    /\ Horizon = 13

\* the rows of the whole years drawn for one path, year after year
DrawnYearRows(chosen) ==
    Flatten([b \in 1..Len(chosen) |-> MonthsOfYear(chosen[b])])

\* C11: in single_year mode every returned path is the concatenation of
\* ceil(horizon_months / 12) drawn historical years: each run of months that
\* came from one drawn year is that year's historical months in calendar
\* order, returns and inflation from the same historical row, and only the
\* last run may be cut, at the horizon.  Checked under SpecSample.
C11_SingleYearIntegrity ==
    (Returned /\ Cfg.mode = "single_year") =>
        \A r \in 1..NSims :
            LET chosen == last_call.draws[r]
                rows == DrawnYearRows(chosen)
                kept == Min(Horizon, Len(rows))
            IN  /\ Len(chosen) * 12 >= Horizon
                /\ (Len(chosen) - 1) * 12 < Horizon
                /\ \A b \in 1..Len(chosen) :
                    chosen[b] \in {sampler.years[i] :
                                    i \in 1..Len(sampler.years)}
                /\ Len(last_call.ret.value.R[r]) = kept
                /\ Len(last_call.ret.value.CPI[r]) = kept
                /\ \A c \in 1..kept :
                    /\ last_call.ret.value.R[r][c] = sampler.rets[rows[c]]
                    /\ last_call.ret.value.CPI[r][c] = sampler.infl[rows[c]]

\* A returned path of 13 months: the twelve months of one drawn year, then the
\* first month of a different drawn year, cut at the horizon.
C11_Witness ==
    /\ Returned
    /\ Cfg.mode = "single_year"
    /\ Horizon = 13
    /\ \E r \in 1..NSims :
        /\ last_call.draws[r][1] # last_call.draws[r][2]
        /\ Len(last_call.ret.value.R[r]) = 13
        /\ Len(MonthsOfYear(last_call.draws[r][2])) > 1

----------------------------------------------------------------------------
(* Claims about a whole run and its summary metrics *)

Finished == pc \in {"done", "irr", "metrics"}

\* all monthly returns and inflation are 0 and there are no goals
FlatRun ==
    /\ run_args.goals = <<>>
    /\ \A j \in 1..T :
        /\ \A a \in 1..Len(sim.w) : run_args.R_paths[j][a] = Zero
        /\ run_args.infl_paths[j] = Zero

\* C12: flat-return baseline.  When all monthly returns and inflation are 0
\* and there are no goals, then for a positive starting balance, weights
\* summing to 1 and any rebalance interval, every recorded balance and real
\* balance equals the starting balance, every monthly TWRR is 0,
\* failure_month is -1, and over a horizon of at least one month CAGR is 0,
\* annualised TWRR is 0 and the maximum drawdown is 0.  Checked under
\* SpecSummary.
C12_FlatBaseline ==
    (/\ Finished
     /\ FlatRun
     /\ RLt(Zero, sim.starting_balance)
     /\ RSum(sim.w) = One) =>
        /\ \A i \in 1..(T + 1) :
            /\ balances[i] = sim.starting_balance
            /\ real_balances[i] = sim.starting_balance
        /\ \A j \in 1..T : twrr_monthly[j] = Zero
        /\ failure_month = -1
        /\ (pc = "metrics" /\ T >= 1) =>
            /\ metrics.cagr = Ok(annualized(One, T))
            /\ metrics.twrr_annualized = Ok(annualized(One, T))
            /\ metrics.max_drawdown = [nan |-> FALSE, value |-> Zero]

\* The metrics of a flat run of MaxT months whose rebalance interval does not
\* divide every month have been computed.
C12_Witness ==
    /\ pc = "metrics"
    /\ FlatRun
    /\ T = MaxT
    /\ sim.reb_m = 2
    /\ metrics.cagr.raised = "no"
    /\ balances[T + 1] = sim.starting_balance

\* C13: allocation/balance consistency.  For weights summing to 1, after the
\* reallocation step of every month on every path (rebalance month or not,
\* failed or not, also when the value before the cashflow is 0 and the
\* cashflow is a contribution), the per-asset allocation sums to the recorded
\* balance balances[t+1].  Checked under Spec.
C13_AllocSumsToBalance ==
    (Running /\ t >= 1 /\ RSum(sim.w) = One) => RSum(alloc) = balances[t + 1]

\* the cashflow vectors of the other goal lists, on the inflation path and
\* horizon of the current run
OtherCashflows ==
    {build_cashflow_vector(g, T, run_args.infl_paths).value :
        g \in {gl \in SummaryGoalLists :
                /\ gl # run_args.goals
                /\ build_cashflow_vector(gl, T, run_args.infl_paths).raised
                        = "no"}}

\* balances[0..j-1] are all strictly positive
StayedPositive(bal, j) == \A i \in 1..j : RLt(Zero, bal[i])

\* C14: the monthly time-weighted return ignores cashflows.  For the same
\* return path, weights and rebalance interval, a run with another goal list
\* records the same twrr_monthly[j] as the current run at every month j up to
\* which the balances of both runs have stayed strictly positive, and that
\* entry is P_j / balances[j] - 1.  Checked under SpecSummary.
C14_TwrrIgnoresCashflows ==
    Running =>
        /\ run_after(cf_paths, t).balances = [i \in 1..(t + 1) |-> balances[i]]
        /\ run_after(cf_paths, t).alloc = alloc
        /\ \A cf \in OtherCashflows :
            LET other == run_after(cf, t)
            IN  \A j \in 1..t :
                    (/\ StayedPositive(balances, j)
                     /\ StayedPositive(other.balances, j)) =>
                        /\ twrr_monthly[j] = other.twrr_monthly[j]
                        /\ twrr_monthly[j] =
                                RSub(RDiv(port[j], balances[j]), One)

\* A finished run of three months with a cashflow in its first month whose
\* balances stayed positive, beside a run with other cashflows and other
\* balances, at a month whose return is not 0.
C14_Witness ==
    /\ pc = "done"
    /\ T = MaxT
    /\ cf_paths[1] # Zero
    /\ StayedPositive(balances, T + 1)
    /\ twrr_monthly[2] # Zero
    /\ twrr_monthly[3] # Zero
    /\ \E cf \in OtherCashflows :
        /\ StayedPositive(run_after(cf, T).balances, T + 1)
        /\ run_after(cf, T).balances[2] # balances[2]
        /\ run_after(cf, T).balances[3] # balances[3]

====
